---- MODULE Spec2Model ----
(***************************************************************************)
(* Hybrid rule-based + Wikipedia chatbot (src/Main.py).                    *)
(*                                                                         *)
(* A Python str is modelled as a sequence of one-character strings, so     *)
(* that lower(), strip(), the two re.sub passes, substring tests and       *)
(* difflib's block matching are computed character by character.  Reply    *)
(* texts, knowledge-base answers, page titles and summaries are opaque     *)
(* payloads and are kept as TLA+ strings (only concatenated, never         *)
(* inspected).  A similarity ratio 2.0*M/T is the pair <<2*M, T>>; ratios  *)
(* are compared by cross multiplication.                                   *)
(***************************************************************************)
EXTENDS Integers, Sequences, FiniteSets, TLC

VARIABLES
    text,          \* normalize_text: argument of the latest call
    normalized,    \* normalize_text: result of the latest call
    ncalls,        \* normalize_text: calls made so far
    user_q,        \* find_best_local_answer: argument user_q
    kb,            \* find_best_local_answer: argument kb (insertion-ordered dict)
    cutoff,        \* find_best_local_answer: argument cutoff
    match,         \* find_best_local_answer: what the latest call returned
    provider,      \* the wikipedia package: what its calls will answer
    calls,         \* the wikipedia package: calls received while resolving
    wiki_ans,      \* fetch_wikipedia_summary: outcome of the latest call
    user_input,    \* chatbot_reply / main: the raw line
    bot_response,  \* chatbot_reply: outcome of the latest call
    invoked,       \* chatbot_reply: helpers it invoked while resolving
    running,       \* main: the while-loop has not hit a break
    printed,       \* main: the last line printed to the console
    chat_log       \* log_chat: exchanges appended to chat_history.txt

vars == <<text, normalized, ncalls, user_q, kb, cutoff, match, provider, calls,
          wiki_ans, user_input, bot_response, invoked, running, printed, chat_log>>

-----------------------------------------------------------------------------
(* Characters.  CharTable lists the modelled characters in code-point      *)
(* order (str comparison in heapq.nlargest is by code point).              *)

UpperLetters == <<"A", "B", "C", "D", "E", "F", "G", "H", "I", "J", "K", "L", "M", "N", "O", "P", "Q", "R", "S", "T", "U", "V", "W", "X", "Y", "Z">>

LowerLetters == <<"a", "b", "c", "d", "e", "f", "g", "h", "i", "j", "k", "l", "m", "n", "o", "p", "q", "r", "s", "t", "u", "v", "w", "x", "y", "z">>

CharTable == <<"\t", " ", "!", "'", "1", "?">> \o UpperLetters \o <<"_">> \o LowerLetters

Range(s) == {s[i] : i \in 1..Len(s)}

UpperSet == Range(UpperLetters)

LowerSet == Range(LowerLetters)

\* str.isspace / the regex class \s
IsSpace(c) == c \in {" ", "\t"}

\* the regex class \w: letters, digits and the underscore
IsWord(c) == c \in UpperSet \cup LowerSet \cup {"1", "_"}

Ord(c) == CHOOSE i \in 1..Len(CharTable) : CharTable[i] = c

\* str.lower(), one character
LowerChar(c) ==
    IF c \in UpperSet
    THEN LowerLetters[CHOOSE i \in 1..Len(UpperLetters) : UpperLetters[i] = c]
    ELSE c

\* str.lower()
Lower(s) == [i \in 1..Len(s) |-> LowerChar(s[i])]

\* str.strip(): drop leading and trailing whitespace
RECURSIVE LStrip(_)
LStrip(s) == IF s # <<>> /\ IsSpace(Head(s)) THEN LStrip(Tail(s)) ELSE s

RECURSIVE RStrip(_)
RStrip(s) ==
    IF s # <<>> /\ IsSpace(s[Len(s)]) THEN RStrip(SubSeq(s, 1, Len(s) - 1)) ELSE s

Strip(s) == RStrip(LStrip(s))

\* re.sub(r"[^\w\s]", "", text): delete every character that is neither \w nor \s
KeepsChar(c) == IsWord(c) \/ IsSpace(c)

RemovePunctuation(s) == SelectSeq(s, KeepsChar)

\* re.sub(r"\s+", " ", text): every maximal run of whitespace becomes one
\* space: a whitespace character after another one goes, the first becomes " "
Positions(s) == [i \in 1..Len(s) |-> i]

RunHeads(s) ==
    SelectSeq(Positions(s), LAMBDA i : ~IsSpace(s[i]) \/ i = 1 \/ ~IsSpace(s[i - 1]))

SpacesOf(s, heads) ==
    [k \in 1..Len(heads) |-> IF IsSpace(s[heads[k]]) THEN " " ELSE s[heads[k]]]

CollapseWhitespace(s) == SpacesOf(s, RunHeads(s))

\* normalize_text, as written: strip first, then the two substitutions
normalize_text(s) == CollapseWhitespace(RemovePunctuation(Strip(Lower(s))))

\* x in y for two str
Contains(y, x) ==
    \E i \in 0..(Len(y) - Len(x)) : \A j \in 1..Len(x) : y[i + j] = x[j]

\* all sequences over alphabet of length at most n
RECURSIVE StringsUpTo(_, _)
StringsUpTo(alphabet, n) ==
    IF n = 0 THEN {<<>>}
    ELSE LET shorter == StringsUpTo(alphabet, n - 1)
         IN  shorter \cup {Append(s, c) : s \in shorter, c \in alphabet}

-----------------------------------------------------------------------------
(* difflib, as find_best_local_answer uses it: SequenceMatcher(None, a, b) *)
(* with no junk predicate and the default autojunk heuristic.  Positions   *)
(* are 1-based; a range alo..ahi-1 is written (alo, ahi).                  *)

Min(x, y) == IF x <= y THEN x ELSE y

Count(s, c) == Cardinality({i \in 1..Len(s) : s[i] = c})

\* a ratio is <<numerator, denominator>> with a positive denominator
RatioGE(r, c) == r[1] * c[2] >= c[1] * r[2]

RatioLT(r, c) == r[1] * c[2] < c[1] * r[2]

RatioEQ(r, c) == r[1] * c[2] = c[1] * r[2]

\* SequenceMatcher._calculate_ratio
CalculateRatio(matches, length) ==
    IF length > 0 THEN <<2 * matches, length>> ELSE <<1, 1>>

\* the length of b from which autojunk is active
AutojunkMinLen == 200

\* SequenceMatcher.__chain_b: with autojunk, in a b of 200 elements or more,
\* the elements making up more than 1% (+1) of b are left out of b2j
Popular(b) ==
    IF Len(b) >= AutojunkMinLen
    THEN {c \in Range(b) : Count(b, c) > (Len(b) \div 100) + 1}
    ELSE {}

\* consecutive pairs a[i+t] = b[j+t] from (i, j) on, b's element being in b2j:
\* the first t at which the pair differs, b's element is dropped, or an end is hit
RunLen(a, b, pop, i, j, ahi, bhi) ==
    CHOOSE t \in 0..Min(ahi - i, bhi - j) :
        /\ \A u \in 0..(t - 1) : a[i + u] = b[j + u] /\ b[j + u] \notin pop
        /\ \/ t = Min(ahi - i, bhi - j)
           \/ a[i + t] # b[j + t]
           \/ b[j + t] \in pop

\* equal pairs going back from (i, j), not included, down to (alo, blo)
BackLen(a, b, i, j, alo, blo) ==
    CHOOSE t \in 0..Min(i - alo, j - blo) :
        /\ \A u \in 0..(t - 1) : a[i - 1 - u] = b[j - 1 - u]
        /\ \/ t = Min(i - alo, j - blo)
           \/ a[i - 1 - t] # b[j - 1 - t]

\* equal pairs going on from (i, j), included, up to (ahi, bhi)
ForwardLen(a, b, i, j, ahi, bhi) ==
    CHOOSE t \in 0..Min(ahi - i, bhi - j) :
        /\ \A u \in 0..(t - 1) : a[i + u] = b[j + u]
        /\ \/ t = Min(ahi - i, bhi - j)
           \/ a[i + t] # b[j + t]

\* the block find_longest_match's scan keeps: the longest, the one starting
\* earliest in a and then earliest in b, or (alo, blo, 0) when nothing matches
BestBlock(blocks, alo, blo) ==
    IF blocks = {}
    THEN [i |-> alo, j |-> blo, size |-> 0]
    ELSE CHOOSE m \in blocks :
            \A o \in blocks :
                \/ o.size < m.size
                \/ o.size = m.size /\ o.i > m.i
                \/ o.size = m.size /\ o.i = m.i /\ o.j >= m.j

\* the block extended on both ends over equal elements (no junk stops it)
ExtendBlock(best, back, forth) ==
    [i |-> best.i - back, j |-> best.j - back, size |-> best.size + back + forth]

ExtendedBlock(a, b, best, alo, ahi, blo, bhi) ==
    ExtendBlock(best, BackLen(a, b, best.i, best.j, alo, blo),
                ForwardLen(a, b, best.i + best.size, best.j + best.size, ahi, bhi))

\* the places where a run of b2j pairs starts
RunStarts(a, b, pop, alo, ahi, blo, bhi) ==
    {p \in (alo..(ahi - 1)) \X (blo..(bhi - 1)) :
        /\ a[p[1]] = b[p[2]]
        /\ b[p[2]] \notin pop
        /\ \/ p[1] = alo
           \/ p[2] = blo
           \/ a[p[1] - 1] # b[p[2] - 1]
           \/ b[p[2] - 1] \in pop}

\* SequenceMatcher.find_longest_match
find_longest_match(a, b, pop, alo, ahi, blo, bhi) ==
    ExtendedBlock(a, b,
        BestBlock({[i |-> p[1], j |-> p[2],
                    size |-> RunLen(a, b, pop, p[1], p[2], ahi, bhi)] :
                      p \in RunStarts(a, b, pop, alo, ahi, blo, bhi)}, alo, blo),
        alo, ahi, blo, bhi)

\* SequenceMatcher.get_matching_blocks, summed: the size of the longest match
\* m plus what splitting around it finds to its left and to its right
RECURSIVE MatchedCount(_, _, _, _, _, _, _)
RECURSIVE SplitAround(_, _, _, _, _, _, _, _)
SplitAround(a, b, pop, alo, ahi, blo, bhi, m) ==
    IF m.size = 0 THEN 0
    ELSE m.size
         + (IF alo < m.i /\ blo < m.j
            THEN MatchedCount(a, b, pop, alo, m.i, blo, m.j) ELSE 0)
         + (IF m.i + m.size < ahi /\ m.j + m.size < bhi
            THEN MatchedCount(a, b, pop, m.i + m.size, ahi, m.j + m.size, bhi)
            ELSE 0)

MatchedCount(a, b, pop, alo, ahi, blo, bhi) ==
    SplitAround(a, b, pop, alo, ahi, blo, bhi,
                find_longest_match(a, b, pop, alo, ahi, blo, bhi))

\* SequenceMatcher(None, a, b).ratio()
Ratio(a, b) ==
    CalculateRatio(MatchedCount(a, b, Popular(b), 1, Len(a) + 1, 1, Len(b) + 1),
                   Len(a) + Len(b))

RECURSIVE SumOver(_, _, _)
SumOver(S, a, b) ==
    IF S = {} THEN 0
    ELSE Min(Count(a, CHOOSE x \in S : TRUE), Count(b, CHOOSE x \in S : TRUE))
         + SumOver(S \ {CHOOSE x \in S : TRUE}, a, b)

\* SequenceMatcher.quick_ratio: the size of the multiset intersection
QuickRatio(a, b) == CalculateRatio(SumOver(Range(a), a, b), Len(a) + Len(b))

\* SequenceMatcher.real_quick_ratio
RealQuickRatio(a, b) == CalculateRatio(Min(Len(a), Len(b)), Len(a) + Len(b))

\* str < str, by code point: s is a proper prefix of t, or the two differ
\* first at a position where s has the smaller character
StrLess(s, t) ==
    \E k \in 1..Len(t) :
        /\ k <= Len(s) + 1
        /\ \A u \in 1..(k - 1) : s[u] = t[u]
        /\ k = Len(s) + 1 \/ Ord(s[k]) < Ord(t[k])

\* (score, x) < (score, x), as tuples compare
ScoredLess(p, q) ==
    \/ RatioLT(p.score, q.score)
    \/ RatioEQ(p.score, q.score) /\ StrLess(p.x, q.x)

\* Largest, taking the smallest entry instead (nsmallest for nlargest)
LargestTakesSmallest(result) ==
    CHOOSE p \in result : \A q \in result \ {p} : ScoredLess(p, q)

\* the largest (score, x) of a non-empty result
Largest(result) == CHOOSE p \in result : \A q \in result \ {p} : ScoredLess(q, p)

\* heapq.nlargest(n, result) for distinct entries
RECURSIVE NLargest(_, _)
RECURSIVE NLargestFrom(_, _, _)
NLargestFrom(n, result, top) == <<top.x>> \o NLargest(n - 1, result \ {top})

NLargest(n, result) ==
    IF n = 0 \/ result = {} THEN <<>> ELSE NLargestFrom(n, result, Largest(result))

\* the test get_close_matches puts x through: the two cheap upper bounds
\* first, then the ratio itself (x is seq1, word is seq2)
IsClose(x, word, c) ==
    /\ RatioGE(RealQuickRatio(x, word), c)
    /\ RatioGE(QuickRatio(x, word), c)
    /\ RatioGE(Ratio(x, word), c)

\* difflib.get_close_matches(word, possibilities, n, cutoff)
get_close_matches(word, possibilities, n, c) ==
    NLargest(n, {[score |-> Ratio(x, word), x |-> x] :
                    x \in {y \in Range(possibilities) : IsClose(y, word, c)}})

-----------------------------------------------------------------------------
(* The knowledge base: a dict in insertion order, a sequence of entries    *)
(* with distinct keys.                                                     *)

Keys(d) == [i \in 1..Len(d) |-> d[i].key]

Get(d, k) == d[CHOOSE i \in 1..Len(d) : d[i].key = k].answer

\* SubstringScan without the "if score >= cutoff" test of line 68
RECURSIVE SubstringScanNoCutoff(_, _, _, _)
SubstringScanNoCutoff(keys, q, c, i) ==
    IF i > Len(keys) THEN 0
    ELSE IF Contains(q, keys[i]) \/ Contains(keys[i], q)
         THEN i
         ELSE SubstringScanNoCutoff(keys, q, c, i + 1)

\* the first key of the substring fallback that passes, 0 if none does
RECURSIVE SubstringScan(_, _, _, _)
SubstringScan(keys, q, c, i) ==
    IF i > Len(keys) THEN 0
    ELSE IF /\ Contains(q, keys[i]) \/ Contains(keys[i], q)
            /\ RatioGE(Ratio(q, keys[i]), c)
         THEN i
         ELSE SubstringScan(keys, q, c, i + 1)

\* return best, kb[best], score (line 63 or line 69)
MatchTuple(d, q, best, line) ==
    [found |-> TRUE, key |-> best, answer |-> Get(d, best),
     score |-> Ratio(q, best), line |-> line]

\* lines 65-70: the substring fallback, hit being the key it stops at
SubstringFallback(d, q, keys, hit) ==
    IF hit # 0 THEN MatchTuple(d, q, keys[hit], 69)
    ELSE [found |-> FALSE, score |-> <<0, 1>>, line |-> 70]

\* lines 56-70, user_q_norm being the normalized query
BestLocal(user_q_norm, d, keys, matches, c) ==
    IF matches # <<>>
    THEN MatchTuple(d, user_q_norm, matches[1], 63)
    ELSE SubstringFallback(d, user_q_norm, keys, SubstringScan(keys, user_q_norm, c, 1))

BestLocalOf(user_q_norm, d, c) ==
    BestLocal(user_q_norm, d, Keys(d), get_close_matches(user_q_norm, Keys(d), 3, c), c)

\* find_best_local_answer; "line" is the return statement taken
find_best_local_answer(q, d, c) == BestLocalOf(normalize_text(q), d, c)

-----------------------------------------------------------------------------
(* Python values and call outcomes.                                        *)

None == [type |-> "NoneType"]

PyStr(s) == [type |-> "str", str |-> s]

Returned(v) == [kind |-> "return", value |-> v]

Raised(e) == [kind |-> "raise", exc |-> e]

NotCalled == [kind |-> "pending"]

-----------------------------------------------------------------------------
(* Settings and the local knowledge base.  The em dash of two texts is     *)
(* written "--".                                                           *)

QA_KB == <<
    [key |-> <<"w", "h", "a", "t", " ", "i", "s", " ", "p", "y", "t", "h", "o", "n">>,
     answer |-> "Python is a high-level, interpreted programming language known for its readability and large ecosystem."],
    [key |-> <<"w", "h", "o", " ", "i", "s", " ", "e", "l", "o", "n", " ", "m", "u", "s", "k">>,
     answer |-> "Elon Musk is an entrepreneur and CEO of Tesla and SpaceX, among other ventures."],
    [key |-> <<"w", "h", "a", "t", " ", "i", "s", " ", "a", "i">>,
     answer |-> "AI stands for Artificial Intelligence -- the simulation of human intelligence in machines."],
    [key |-> <<"w", "h", "a", "t", " ", "i", "s", " ", "g", "i", "t", "h", "u", "b">>,
     answer |-> "GitHub is a platform for hosting and collaborating on software projects using Git."],
    [key |-> <<"h", "o", "w", " ", "t", "o", " ", "l", "e", "a", "r", "n", " ", "p", "r", "o", "g", "r", "a", "m", "m", "i", "n", "g">>,
     answer |-> "Start with fundamentals (variables, loops, functions), build small projects, and practice consistently."],
    [key |-> <<"w", "h", "a", "t", " ", "i", "s", " ", "m", "a", "c", "h", "i", "n", "e", " ", "l", "e", "a", "r", "n", "i", "n", "g">>,
     answer |-> "Machine Learning is a subset of AI that allows systems to learn patterns from data and make predictions."]
>>

\* FUZZY_CUTOFF = 0.6
FUZZY_CUTOFF == <<6, 10>>

WIKI_SENTENCES == 2

ENABLE_CHAT_LOG == TRUE

-----------------------------------------------------------------------------
(* The wikipedia package.  provider.search is what wikipedia.search will   *)
(* answer, provider.first and provider.retry what the first and the second *)
(* wikipedia.summary call of one fetch will answer.  A summary that        *)
(* succeeds is the text of the page asked for.                             *)

SearchCall(query) == [fn |-> "search", query |-> query, results |-> 5]

SummaryCall(title, sentences) ==
    [fn |-> "summary", title |-> title, sentences |-> sentences,
     auto_suggest |-> FALSE, redirect |-> TRUE]

SummaryOf(title) == "Summary of " \o title \o "."

\* the exception classes in play and the except clauses that catch them:
\* every one of them derives from Exception
Catches(clause, exc) == clause = "Exception" \/ exc.type = clause

\* lines 79-85, the body of the outer try
FetchTryBody(query, sentences, p) ==
    IF p.search.kind = "raise"
    THEN [out |-> Raised(p.search.exc), calls |-> <<SearchCall(query)>>]
    ELSE IF p.search.titles = <<>>
    THEN [out |-> Returned(None), calls |-> <<SearchCall(query)>>]
    ELSE LET page_title == p.search.titles[1]
             made == <<SearchCall(query), SummaryCall(page_title, sentences)>>
         IN  IF p.first.kind = "raise"
             THEN [out |-> Raised(p.first.exc), calls |-> made]
             ELSE [out |-> Returned(PyStr("According to Wikipedia (" \o page_title
                                          \o "):\n" \o SummaryOf(page_title))),
                   calls |-> made]

\* FetchDisambiguation without the inner try/except of lines 88 and 92-93
FetchDisambiguationUnguarded(e, sentences, p, made) ==
    IF e.options = <<>>
    THEN [out |-> Raised([type |-> "IndexError"]), calls |-> made]
    ELSE IF p.retry.kind = "raise"
    THEN [out |-> Raised(p.retry.exc),
          calls |-> Append(made, SummaryCall(e.options[1], sentences))]
    ELSE [out |-> Returned(PyStr("According to Wikipedia (" \o e.options[1]
                                 \o "):\n" \o SummaryOf(e.options[1]))),
          calls |-> Append(made, SummaryCall(e.options[1], sentences))]

\* FetchDisambiguation retrying with the last option, e.options[-1]
FetchDisambiguationLastOption(e, sentences, p, made) ==
    IF e.options = <<>>
    THEN [out |-> Returned(None), calls |-> made]
    ELSE IF p.retry.kind = "raise"
    THEN [out |-> Returned(None),
          calls |-> Append(made, SummaryCall(e.options[Len(e.options)], sentences))]
    ELSE [out |-> Returned(PyStr("According to Wikipedia (" \o e.options[Len(e.options)]
                                 \o "):\n" \o SummaryOf(e.options[Len(e.options)]))),
          calls |-> Append(made, SummaryCall(e.options[Len(e.options)], sentences))]

\* lines 88-93, the handler of DisambiguationError: e.options[0] raises
\* IndexError on an empty list; the inner except Exception returns None
FetchDisambiguation(e, sentences, p, made) ==
    LET body ==
            IF e.options = <<>>
            THEN [out |-> Raised([type |-> "IndexError"]), calls |-> made]
            ELSE LET option == e.options[1]
                     now == Append(made, SummaryCall(option, sentences))
                 IN  IF p.retry.kind = "raise"
                     THEN [out |-> Raised(p.retry.exc), calls |-> now]
                     ELSE [out |-> Returned(PyStr("According to Wikipedia (" \o option
                                                  \o "):\n" \o SummaryOf(option))),
                           calls |-> now]
    IN  IF body.out.kind = "raise" /\ Catches("Exception", body.out.exc)
        THEN [out |-> Returned(None), calls |-> body.calls]
        ELSE body

\* fetch_wikipedia_summary without the except clauses of lines 94-97
FetchWithoutLastHandlers(query, sentences, p) ==
    IF FetchTryBody(query, sentences, p).out.kind = "raise"
       /\ Catches("DisambiguationError", FetchTryBody(query, sentences, p).out.exc)
    THEN FetchDisambiguation(FetchTryBody(query, sentences, p).out.exc, sentences, p,
                             FetchTryBody(query, sentences, p).calls)
    ELSE FetchTryBody(query, sentences, p)

\* fetch_wikipedia_summary: the try body, then the except clauses in order
fetch_wikipedia_summary(query, sentences, p) ==
    LET body == FetchTryBody(query, sentences, p)
    IN  IF body.out.kind # "raise" THEN body
        ELSE IF Catches("DisambiguationError", body.out.exc)
        THEN FetchDisambiguation(body.out.exc, sentences, p, body.calls)
        ELSE IF Catches("PageError", body.out.exc)
        THEN [out |-> Returned(None), calls |-> body.calls]
        ELSE IF Catches("Exception", body.out.exc)
        THEN [out |-> Returned(None), calls |-> body.calls]
        ELSE body

-----------------------------------------------------------------------------
(* chatbot_reply.                                                          *)

PleaseType == "Please type something -- I didn't get your message."

Greeting == "Hello! How can I help you today?"

DoingFine == "I'm a program, doing fine! How about you?"

Identity ==
    "I'm ChatBot -- a hybrid assistant (local + Wikipedia). Type 'help' to see options."

Welcome == "You're welcome!"

Farewell == "Goodbye! Have a great day"

HelpText ==
    "I can answer common questions from my local knowledge base. "
    \o "If I don't know, I'll try Wikipedia. Examples:\n"
    \o "- Who is Elon Musk?\n- What is Python?\nType 'exit' to leave."

Fallback == "Sorry, I couldn't find an answer. Try rephrasing or ask something else."

IsGreeting(low) == \E g \in {<<"h", "i">>, <<"h", "e", "l", "l", "o">>, <<"h", "e", "y">>} : Contains(low, g)

IsHowAreYou(low) ==
    \/ Contains(low, <<"h", "o", "w", " ", "a", "r", "e", " ", "y", "o", "u">>)
    \/ Contains(low, <<"h", "o", "w", " ", "r", " ", "y", "o", "u">>)
    \/ Contains(low, <<"h", "o", "w", " ", "a", "r", "e", " ", "u">>)

IsIdentity(low) ==
    \/ Contains(low, <<"y", "o", "u", "r", " ", "n", "a", "m", "e">>)
    \/ Contains(low, <<"w", "h", "o", " ", "a", "r", "e", " ", "y", "o", "u">>)

IsThanks(low) == Strip(low) \in {<<"t", "h", "a", "n", "k", "s">>, <<"t", "h", "a", "n", "k", " ", "y", "o", "u">>, <<"t", "h", "x">>}

IsExit(low) == Strip(low) \in {<<"b", "y", "e">>, <<"g", "o", "o", "d", "b", "y", "e">>, <<"e", "x", "i", "t">>, <<"q", "u", "i", "t">>}

IsHelp(low) == Strip(low) = <<"h", "e", "l", "p">>

\* QuickReplyLow with the greeting test moved below the identity test
QuickReplyGreetingLater(stripped, low) ==
    IF stripped = <<>> THEN [hit |-> TRUE, str |-> PleaseType]
    ELSE IF IsHowAreYou(low) THEN [hit |-> TRUE, str |-> DoingFine]
    ELSE IF IsIdentity(low) THEN [hit |-> TRUE, str |-> Identity]
    ELSE IF IsGreeting(low) THEN [hit |-> TRUE, str |-> Greeting]
    ELSE IF IsThanks(low) THEN [hit |-> TRUE, str |-> Welcome]
    ELSE IF IsExit(low) THEN [hit |-> TRUE, str |-> Farewell]
    ELSE IF IsHelp(low) THEN [hit |-> TRUE, str |-> HelpText]
    ELSE [hit |-> FALSE]

\* lines 113-132: the quick replies, in the order of the if statements
QuickReplyLow(stripped, low) ==
    IF stripped = <<>> THEN [hit |-> TRUE, str |-> PleaseType]
    ELSE IF IsGreeting(low) THEN [hit |-> TRUE, str |-> Greeting]
    ELSE IF IsHowAreYou(low) THEN [hit |-> TRUE, str |-> DoingFine]
    ELSE IF IsIdentity(low) THEN [hit |-> TRUE, str |-> Identity]
    ELSE IF IsThanks(low) THEN [hit |-> TRUE, str |-> Welcome]
    ELSE IF IsExit(low) THEN [hit |-> TRUE, str |-> Farewell]
    ELSE IF IsHelp(low) THEN [hit |-> TRUE, str |-> HelpText]
    ELSE [hit |-> FALSE]

QuickReply(stripped) == QuickReplyLow(stripped, Lower(stripped))

\* LocalReply with "score <= 0.8" for "score < 0.8"
LocalReplyAtMost(answer, score) ==
    IF RatioGE(<<8, 10>>, score) THEN "(Local) " \o answer ELSE answer

\* lines 138-141: the marker for a score below 0.8
LocalReply(answer, score) ==
    IF RatioLT(score, <<8, 10>>) THEN "(Local) " \o answer ELSE answer

\* chatbot_reply's outcome: out is what the call returns or raises; invoked,
\* match, wiki and calls record which helpers ran and what they answered

\* lines 144-149: the summary if there is one, else the generic reply; an
\* exception of fetch_wikipedia_summary would pass through chatbot_reply
WikiStage(local, fetched) ==
    [out |-> IF fetched.out.kind = "raise" THEN fetched.out
             ELSE IF fetched.out.value # None /\ fetched.out.value.str # ""
             THEN fetched.out
             ELSE Returned(PyStr(Fallback)),
     invoked |-> {"find_best_local_answer", "fetch_wikipedia_summary"},
     match |-> Returned(local), wiki |-> fetched.out, calls |-> fetched.calls]

\* lines 136-149: "if answer" is the truth value of the answer
LocalStage(stripped, local, p) ==
    IF local.found /\ local.answer # ""
    THEN [out |-> Returned(PyStr(LocalReply(local.answer, local.score))),
          invoked |-> {"find_best_local_answer"},
          match |-> Returned(local), wiki |-> NotCalled, calls |-> <<>>]
    ELSE WikiStage(local, fetch_wikipedia_summary(stripped, WIKI_SENTENCES, p))

\* lines 113-149
QuickStage(stripped, quick, p) ==
    IF quick.hit
    THEN [out |-> Returned(PyStr(quick.str)), invoked |-> {},
          match |-> NotCalled, wiki |-> NotCalled, calls |-> <<>>]
    ELSE LocalStage(stripped, find_best_local_answer(stripped, QA_KB, FUZZY_CUTOFF), p)

ResolveStripped(stripped, p) == QuickStage(stripped, QuickReply(stripped), p)

\* chatbot_reply
chatbot_reply(raw, p) == ResolveStripped(Strip(raw), p)

-----------------------------------------------------------------------------
(* Bounds and input sets.                                                  *)

\* longest generated argument of normalize_text
MaxTextLen == 3

\* longest generated key and query of find_best_local_answer
MaxKeyLen == 2

\* longest generated line handed to chatbot_reply
MaxInputLen == 2

\* lines read by main before the model stops it
MaxTurns == 2

NormalizeAlphabet == {"a", "B", " ", "\t", "!", "_"}

KeyAlphabet == {"a", "b", " ", "!"}

InputAlphabet == {"h", "i", " ", "!"}

Repeat(c, n) == [i \in 1..n |-> c]

\* a dict of the given keys, in that order, the i-th answer being "answer i"
DictOf(keys) == [i \in 1..Len(keys) |-> [key |-> keys[i], answer |-> "answer " \o ToString(i)]]

GeneratedKeys == StringsUpTo(KeyAlphabet, MaxKeyLen)

\* every dict of one or two generated keys
GeneratedKBs ==
    {DictOf(<<k>>) : k \in GeneratedKeys}
    \cup {DictOf(<<p[1], p[2]>>) :
             p \in {q \in GeneratedKeys \X GeneratedKeys : q[1] # q[2]}}

\* a query of 200 characters: long enough for autojunk when it is seq2
LongQuery == Repeat("b", 4) \o Repeat("a", 196)

\* keys contained in LongQuery: too short to pass 0.6, then two that pass
LongKB == DictOf(<<Repeat("a", 1), Repeat("a", 100), Repeat("a", 101)>>)

ExtraQueries == {
    <<"e", "l", "o", "n", " ", "m", "u", "s", "k">>,
    <<"w", "h", "a", "t", "s", " ", "a", "i">>,
    <<"W", "h", "a", "t", " ", "i", "s", " ", "P", "y", "t", "h", "o", "n", "?">>,
    <<"z", "z", "z">>,
    <<"w", "h", "a", "t", " ", "i", "s">>
}

\* the (kb, user_q) pairs tried: each key of a dict as its own query, some
\* other queries against QA_KB, and the long query
MatchCases ==
    UNION {{<<d, d[i].key>> : i \in 1..Len(d)} : d \in GeneratedKBs \cup {QA_KB, LongKB}}
    \cup {<<d, q>> : d \in {DictOf(<<k>>) : k \in GeneratedKeys}, q \in GeneratedKeys}
    \cup {<<QA_KB, q>> : q \in ExtraQueries}
    \cup {<<LongKB, LongQuery>>, <<DictOf(<<Repeat("a", 100)>>), LongQuery>>}

Cutoffs == {<<0, 10>>, FUZZY_CUTOFF, <<10, 10>>}

ExceptionKinds ==
    {[type |-> "DisambiguationError", options |-> o] :
        o \in {<<>>, <<"A">>, <<"A", "B">>, <<"B", "A">>}}
    \cup {[type |-> "PageError"], [type |-> "Exception"]}

SearchOutcomes ==
    {[kind |-> "ok", titles |-> t] : t \in {<<>>, <<"T">>, <<"T", "U">>}}
    \cup {[kind |-> "raise", exc |-> [type |-> "Exception"]]}

SummaryOutcomes == {[kind |-> "ok"]} \cup {[kind |-> "raise", exc |-> e] : e \in ExceptionKinds}

\* the retry: success, one more disambiguation, a missing page, a generic error
RetryOutcomes ==
    {o \in SummaryOutcomes : o.kind = "raise" => o.exc \notin
        {[type |-> "DisambiguationError", options |-> x] : x \in {<<>>, <<"A", "B">>, <<"B", "A">>}}}

Providers == [search : SearchOutcomes, first : SummaryOutcomes, retry : RetryOutcomes]

ReplyInputs == StringsUpTo(InputAlphabet, MaxInputLen) \cup {
    <<" ", " ">>,
    <<"h", "e", "l", "l", "o">>,
    <<"H", "i">>,
    <<"h", "e", "y", " ", "t", "h", "e", "r", "e">>,
    <<"t", "h", "i", "s">>,
    <<"h", "i", " ", "h", "o", "w", " ", "a", "r", "e", " ", "y", "o", "u">>,
    <<"H", "o", "w", " ", "a", "r", "e", " ", "y", "o", "u", "?">>,
    <<"h", "o", "w", " ", "r", " ", "y", "o", "u">>,
    <<"h", "o", "w", " ", "a", "r", "e", " ", "u", " ", "w", "h", "o", " ", "a", "r", "e", " ", "y", "o", "u">>,
    <<"w", "h", "a", "t", "s", " ", "y", "o", "u", "r", " ", "n", "a", "m", "e">>,
    <<"W", "h", "o", " ", "a", "r", "e", " ", "y", "o", "u">>,
    <<"t", "h", "a", "n", "k", "s">>,
    <<" ", "T", "h", "a", "n", "k", " ", "Y", "o", "u", " ">>,
    <<"t", "h", "x">>,
    <<"t", "h", "a", "n", "k", "s", " ", "a", " ", "l", "o", "t">>,
    <<"b", "y", "e">>,
    <<"G", "o", "o", "d", "b", "y", "e">>,
    <<"e", "x", "i", "t">>,
    <<"Q", "U", "I", "T">>,
    <<"h", "e", "l", "p">>,
    <<"h", "e", "l", "p", " ", "m", "e">>,
    <<"W", "h", "a", "t", " ", "i", "s", " ", "P", "y", "t", "h", "o", "n", "?">>,
    <<"W", "H", "A", "T", " ", "I", "S", " ", "A", "I">>,
    <<"w", "h", "a", "t", "s", " ", "a", "i">>,
    <<"e", "l", "o", "n", " ", "m", "u", "s", "k">>,
    <<"z", "z", "z">>,
    <<"p", "y", "t", "h", "o", "n">>,
    <<"w", "h", "a", "t", " ", "i", "s", " ", "m", "a", "c", "h", "i", "n", "e", " ", "l", "e", "a", "r", "n", "i", "n", "g">>,
    <<"w", "h", "o", " ", "i", "s", " ", "e", "l", "o", "n", " ", "m", "u", "s", "k">>,
    <<"w", "h", "a", "t", " ", "i", "s", " ", "g", "i", "t", "h", "u", "b">>,
    <<"h", "o", "w", " ", "t", "o", " ", "l", "e", "a", "r", "n", " ", "p", "r", "o", "g", "r", "a", "m", "m", "i", "n", "g">>,
    <<"w", "h", "a", "t", " ", "i", "s", " ", "a", "i">>,
    <<"w", "h", "a", "t", " ", "i", "s", " ", "p", "y", "t", "h", "o", "n">>,
    <<"W", "h", "o", " ", "i", "s", " ", "E", "l", "o", "n", " ", "M", "u", "s", "k", "?">>,
    <<"w", "h", "a", "t", " ", "i", "s", " ", "g", "i", "t", "h", "u", "b", "!">>,
    <<"H", "o", "w", " ", "T", "o", " ", "L", "e", "a", "r", "n", " ", "P", "r", "o", "g", "r", "a", "m", "m", "i", "n", "g">>,
    <<"l", "e", "a", "r", "n", " ", "p", "r", "o", "g", "r", "a", "m", "m", "i", "n", "g">>,
    <<"w", "h", "a", "t", " ", "i", "s">>,
    <<"a", " ", "b">>,
    <<"w", "h", "a", "t", " ", "i", "s", " ", "x", "x">>
}

MainLines == {
    <<"e", "x", "i", "t">>,
    <<" ", "Q", "U", "I", "T">>,
    <<"E", "x", "i", "t", " ">>,
    <<"b", "y", "e">>,
    <<"G", "o", "o", "d", "b", "y", "e", " ">>,
    <<"h", "e", "l", "l", "o">>,
    <<"h", "e", "l", "p">>,
    <<"w", "h", "a", "t", " ", "i", "s", " ", "a", "i">>,
    <<"e", "l", "o", "n", " ", "m", "u", "s", "k">>,
    <<"z", "z", "z">>,
    <<>>
}

\* what the provider does during one turn of main
MainProviders ==
    {pr \in Providers :
        /\ pr.search \in {[kind |-> "ok", titles |-> <<>>], [kind |-> "ok", titles |-> <<"T">>]}
        /\ pr.first \in {[kind |-> "ok"], [kind |-> "raise", exc |-> [type |-> "PageError"]]}
        /\ pr.retry = [kind |-> "ok"]}

Quiet == CHOOSE pr \in MainProviders : pr.search.titles = <<>> /\ pr.first.kind = "ok"

-----------------------------------------------------------------------------
(* Specifications: one per entry point.                                    *)

\* normalize_text on a generated argument, then on its own result
InitNormalize ==
    /\ text \in StringsUpTo(NormalizeAlphabet, MaxTextLen)
    /\ normalized = NotCalled /\ ncalls = 0
    /\ user_q = <<>> /\ kb = <<>> /\ cutoff = FUZZY_CUTOFF /\ match = NotCalled
    /\ provider = Quiet /\ calls = <<>> /\ wiki_ans = NotCalled
    /\ user_input = <<>> /\ bot_response = NotCalled /\ invoked = {}
    /\ running = FALSE /\ printed = "" /\ chat_log = <<>>

NormalizeText ==
    /\ ncalls = 0
    /\ normalized' = Returned(PyStr(normalize_text(text)))
    /\ ncalls' = 1
    /\ UNCHANGED <<text, user_q, kb, cutoff, match, provider, calls, wiki_ans,
                   user_input, bot_response, invoked, running, printed, chat_log>>

NormalizeAgain ==
    /\ ncalls = 1
    /\ text' = normalized.value.str
    /\ normalized' = Returned(PyStr(normalize_text(normalized.value.str)))
    /\ ncalls' = 2
    /\ UNCHANGED <<user_q, kb, cutoff, match, provider, calls, wiki_ans,
                   user_input, bot_response, invoked, running, printed, chat_log>>

NextNormalize == NormalizeText \/ NormalizeAgain

SpecNormalize == InitNormalize /\ [][NextNormalize]_vars

\* find_best_local_answer on one of the cases
InitMatch ==
    /\ \E c \in MatchCases : kb = c[1] /\ user_q = c[2]
    /\ cutoff \in Cutoffs
    /\ match = NotCalled
    /\ text = <<>> /\ normalized = NotCalled /\ ncalls = 0
    /\ provider = Quiet /\ calls = <<>> /\ wiki_ans = NotCalled
    /\ user_input = <<>> /\ bot_response = NotCalled /\ invoked = {}
    /\ running = FALSE /\ printed = "" /\ chat_log = <<>>

FindBestLocalAnswer ==
    /\ match = NotCalled
    /\ match' = Returned(find_best_local_answer(user_q, kb, cutoff))
    /\ UNCHANGED <<text, normalized, ncalls, user_q, kb, cutoff, provider, calls,
                   wiki_ans, user_input, bot_response, invoked, running, printed,
                   chat_log>>

NextMatch == FindBestLocalAnswer

SpecMatch == InitMatch /\ [][NextMatch]_vars

\* fetch_wikipedia_summary against every provider behaviour
InitFetch ==
    /\ provider \in Providers
    /\ user_input \in {<<"z", "z", "z">>, <<"e", "l", "o", "n", " ", "m", "u", "s", "k">>}
    /\ calls = <<>> /\ wiki_ans = NotCalled
    /\ text = <<>> /\ normalized = NotCalled /\ ncalls = 0
    /\ user_q = <<>> /\ kb = <<>> /\ cutoff = FUZZY_CUTOFF /\ match = NotCalled
    /\ bot_response = NotCalled /\ invoked = {}
    /\ running = FALSE /\ printed = "" /\ chat_log = <<>>

RecordFetch(r) == wiki_ans' = r.out /\ calls' = r.calls

FetchWikipediaSummary ==
    /\ wiki_ans = NotCalled
    /\ RecordFetch(fetch_wikipedia_summary(user_input, WIKI_SENTENCES, provider))
    /\ UNCHANGED <<text, normalized, ncalls, user_q, kb, cutoff, match, provider,
                   user_input, bot_response, invoked, running, printed, chat_log>>

NextFetch == FetchWikipediaSummary

SpecFetch == InitFetch /\ [][NextFetch]_vars

\* chatbot_reply on one line against every provider behaviour
InitReply ==
    /\ user_input \in ReplyInputs
    /\ provider \in Providers
    /\ bot_response = NotCalled /\ invoked = {} /\ match = NotCalled
    /\ calls = <<>> /\ wiki_ans = NotCalled
    /\ text = <<>> /\ normalized = NotCalled /\ ncalls = 0
    /\ user_q = <<>> /\ kb = <<>> /\ cutoff = FUZZY_CUTOFF
    /\ running = FALSE /\ printed = "" /\ chat_log = <<>>

\* the outcome r of a chatbot_reply call, taken into the state
RecordReply(r) ==
    /\ bot_response' = r.out
    /\ invoked' = r.invoked
    /\ match' = r.match
    /\ wiki_ans' = r.wiki
    /\ calls' = r.calls

ChatbotReply ==
    /\ bot_response = NotCalled
    /\ RecordReply(chatbot_reply(user_input, provider))
    /\ UNCHANGED <<text, normalized, ncalls, user_q, kb, cutoff, provider,
                   user_input, running, printed, chat_log>>

NextReply == ChatbotReply

SpecReply == InitReply /\ [][NextReply]_vars

\* log_chat: one exchange appended when logging is on (the timestamp is left out)
log_chat(log, user_text, bot_text) ==
    IF ENABLE_CHAT_LOG THEN Append(log, [user |-> user_text, bot |-> bot_text]) ELSE log

\* main, started: the banner is printed and the loop is about to read a line
InitMain ==
    /\ running = TRUE
    /\ printed = "Hybrid ChatBot: Hello! (type 'help' for tips, 'exit' to quit)\n"
    /\ chat_log = <<>>
    /\ user_input = <<>> /\ bot_response = NotCalled /\ invoked = {}
    /\ provider = Quiet /\ calls = <<>> /\ wiki_ans = NotCalled /\ match = NotCalled
    /\ text = <<>> /\ normalized = NotCalled /\ ncalls = 0
    /\ user_q = <<>> /\ kb = <<>> /\ cutoff = FUZZY_CUTOFF

\* lines 167-169: print the response and log the exchange; an exception of
\* chatbot_reply would end main with a traceback
PrintAndLog(stripped, r) ==
    /\ RecordReply(r)
    /\ IF r.out.kind = "raise"
       THEN /\ printed' = "Traceback (most recent call last)"
            /\ running' = FALSE
            /\ UNCHANGED chat_log
       ELSE /\ printed' = "ChatBot: " \o r.out.value.str
            /\ running' = TRUE
            /\ chat_log' = log_chat(chat_log, stripped, r.out.value.str)

\* MainBody without the exit test of lines 163-165
MainBodyNoIntercept(stripped, pr) ==
    /\ user_input' = stripped
    /\ provider' = pr
    /\ PrintAndLog(stripped, chatbot_reply(stripped, pr))

\* lines 158, 163-169: the loop body once a line is read, stripped
MainBody(stripped, pr) ==
    /\ user_input' = stripped
    /\ provider' = pr
    /\ IF Lower(stripped) \in {<<"e", "x", "i", "t">>, <<"q", "u", "i", "t">>}
       THEN /\ printed' = "ChatBot: Goodbye!"
            /\ running' = FALSE
            /\ UNCHANGED <<bot_response, invoked, match, wiki_ans, calls, chat_log>>
       ELSE PrintAndLog(stripped, chatbot_reply(stripped, pr))

\* one pass of the loop that reads a line
MainTurn(line, pr) ==
    /\ running
    /\ Len(chat_log) < MaxTurns
    /\ MainBody(Strip(line), pr)
    /\ UNCHANGED <<text, normalized, ncalls, user_q, kb, cutoff>>

\* KeyboardInterrupt or EOFError while reading (lines 159-161)
MainInterrupt ==
    /\ running
    /\ printed' = "\nChatBot: Bye!"
    /\ running' = FALSE
    /\ UNCHANGED <<text, normalized, ncalls, user_q, kb, cutoff, match, provider,
                   calls, wiki_ans, user_input, bot_response, invoked, chat_log>>

NextMain ==
    \/ \E line \in MainLines, pr \in MainProviders : MainTurn(line, pr)
    \/ MainInterrupt

SpecMain == InitMain /\ [][NextMain]_vars

-----------------------------------------------------------------------------
(* Properties.                                                             *)

Called(outcome) == outcome # NotCalled

ReplyIs(str) == bot_response = Returned(PyStr(str))

\* the quick-reply rules by rank, as predicates of the stripped line
RuleHolds(n, stripped) ==
    CASE n = 1 -> stripped = <<>>
      [] n = 2 -> IsGreeting(Lower(stripped))
      [] n = 3 -> IsHowAreYou(Lower(stripped))
      [] n = 4 -> IsIdentity(Lower(stripped))
      [] n = 5 -> IsThanks(Lower(stripped))
      [] n = 6 -> IsExit(Lower(stripped))
      [] n = 7 -> IsHelp(Lower(stripped))

CannedReply == <<PleaseType, Greeting, DoingFine, Identity, Welcome, Farewell, HelpText>>

\* the rank of the first rule that holds, 0 if none does
FirstRule(stripped) ==
    IF \E n \in 1..7 : RuleHolds(n, stripped)
    THEN CHOOSE n \in 1..7 :
            RuleHolds(n, stripped) /\ \A m \in 1..(n - 1) : ~RuleHolds(m, stripped)
    ELSE 0

\* C1: when the line is empty or satisfies a quick-reply predicate,
\* chatbot_reply returns the canned reply of the first rule, in the order
\* empty, greeting, how-are-you, identity, thanks, exit, help, whose predicate
\* holds, and neither find_best_local_answer nor fetch_wikipedia_summary nor
\* the provider has been invoked.
C1_QuickReplyPriority ==
    (Called(bot_response) /\ FirstRule(Strip(user_input)) # 0) =>
        /\ ReplyIs(CannedReply[FirstRule(Strip(user_input))])
        /\ invoked = {}
        /\ match = NotCalled /\ wiki_ans = NotCalled /\ calls = <<>>

\* C1: a line on which the greeting rule and a later rule (how-are-you) both
\* hold has been answered
C1_Witness ==
    /\ Called(bot_response)
    /\ RuleHolds(2, Strip(user_input))
    /\ RuleHolds(3, Strip(user_input))
    /\ ReplyIs(Greeting)

\* the summary calls of one fetch, in order, and what the provider answered
SummaryCalls == SelectSeq(calls, LAMBDA c : c.fn = "summary")

SearchCalls == SelectSeq(calls, LAMBDA c : c.fn = "search")

SummaryAnswer(k) == IF k = 1 THEN provider.first ELSE provider.retry

SummarySucceeded == \E k \in 1..Len(SummaryCalls) : SummaryAnswer(k).kind = "ok"

Titles == {"T", "U", "A", "B"}

Formatted(title) == PyStr("According to Wikipedia (" \o title \o "):\n" \o SummaryOf(title))

\* C2: whatever the search call and the summary calls answer,
\* fetch_wikipedia_summary returns (it raises nothing), what it returns is
\* None or a formatted summary, and it is None when no summary call succeeded.
C2_NoErrorPropagates ==
    Called(wiki_ans) =>
        /\ wiki_ans.kind = "return"
        /\ wiki_ans.value = None \/ \E t \in Titles : wiki_ans.value = Formatted(t)
        /\ ~SummarySucceeded => wiki_ans.value = None

\* C2: a fetch whose first summary call reported a disambiguation and whose
\* retry failed with a generic error has returned None
C2_Witness ==
    /\ Called(wiki_ans)
    /\ Len(SummaryCalls) = 2
    /\ provider.first.kind = "raise"
    /\ provider.retry = [kind |-> "raise", exc |-> [type |-> "Exception"]]
    /\ wiki_ans = Returned(None)

\* the first summary call of this fetch fails with a disambiguation error
\* that lists at least one option
DisambiguationListed ==
    /\ provider.search.kind = "ok" /\ provider.search.titles # <<>>
    /\ provider.first.kind = "raise"
    /\ provider.first.exc.type = "DisambiguationError"
    /\ provider.first.exc.options # <<>>

\* C3: after a disambiguation error listing options, the summary is asked
\* once more, for the first option and no other; the fetch returns that
\* option's summary attributed to it if the retry succeeds and None if it
\* fails.  Every fetch makes at most one search call and at most two summary
\* calls, and a second summary call only after a disambiguation error.
C3_RetryFirstOptionOnce ==
    Called(wiki_ans) =>
        /\ DisambiguationListed =>
            /\ calls = <<SearchCall(user_input),
                         SummaryCall(provider.search.titles[1], WIKI_SENTENCES),
                         SummaryCall(provider.first.exc.options[1], WIKI_SENTENCES)>>
            /\ wiki_ans = IF provider.retry.kind = "ok"
                          THEN Returned(Formatted(provider.first.exc.options[1]))
                          ELSE Returned(None)
        /\ Len(SearchCalls) <= 1
        /\ Len(SummaryCalls) <= 2
        /\ Len(SummaryCalls) = 2 =>
              /\ provider.first.kind = "raise"
              /\ provider.first.exc.type = "DisambiguationError"

\* C3: a disambiguation listing B before A has been retried, successfully
C3_Witness ==
    /\ Called(wiki_ans)
    /\ DisambiguationListed
    /\ provider.first.exc.options = <<"B", "A">>
    /\ provider.retry.kind = "ok"
    /\ wiki_ans = Returned(Formatted("B"))

\* the provider gives this fetch nothing: the search fails or is empty, or
\* the summary fails and no retry of a listed disambiguation succeeds
LookupYieldsNothing ==
    \/ provider.search.kind = "raise"
    \/ provider.search.titles = <<>>
    \/ /\ provider.first.kind = "raise"
       /\ ~(DisambiguationListed /\ provider.retry.kind = "ok")

\* C4: chatbot_reply never raises, and when it went as far as the external
\* lookup (no quick reply, no local match) and the provider gave nothing, it
\* returns the generic fallback message, the same one for every kind of
\* provider failure.
C4_UniformFallback ==
    Called(bot_response) =>
        /\ bot_response.kind = "return"
        /\ ("fetch_wikipedia_summary" \in invoked /\ LookupYieldsNothing) =>
              ReplyIs(Fallback)

\* C4: a lookup whose disambiguation retry failed with a generic error has
\* been answered with the fallback
C4_Witness ==
    /\ Called(bot_response)
    /\ "fetch_wikipedia_summary" \in invoked
    /\ DisambiguationListed
    /\ provider.retry = [kind |-> "raise", exc |-> [type |-> "Exception"]]
    /\ ReplyIs(Fallback)

IsKeyOf(k, d) == \E i \in 1..Len(d) : d[i].key = k

\* find_best_local_answer returned exactly (k, kb[k], 1.0)
ExactHit(k) ==
    /\ match.value.found
    /\ match.value.key = k
    /\ match.value.answer = Get(kb, k)
    /\ match.value.score[1] = match.value.score[2]

\* C5, as stated: for any key k of kb and any cutoff in [0, 1],
\* find_best_local_answer(k, kb, cutoff) returns exactly k, kb[k] and 1.0.
C5_AnyKeyExact ==
    (Called(match) /\ IsKeyOf(user_q, kb)) => ExactHit(user_q)

\* C5, amended: for any key k of kb that is in normalized form
\* (normalize_text(k) = k) and any cutoff in [0, 1],
\* find_best_local_answer(k, kb, cutoff) returns exactly k, kb[k] and 1.0.
C5_NormalizedKeyExact ==
    (Called(match) /\ IsKeyOf(user_q, kb) /\ normalize_text(user_q) = user_q) =>
        ExactHit(user_q)

\* C5: a normalized key has been looked up, with cutoff 1.0, in a dict that
\* holds another key as well
C5_Witness ==
    /\ Called(match)
    /\ IsKeyOf(user_q, kb)
    /\ normalize_text(user_q) = user_q
    /\ user_q # <<>>
    /\ Len(kb) = 2
    /\ cutoff = <<10, 10>>
    /\ ExactHit(user_q)

\* C6: when chatbot_reply reached the local lookup and it returned a match,
\* the response is "(Local) " followed by the stored answer if the score is
\* below 0.8 and the stored answer alone if it is 0.8 or more, and the
\* external summary client was not invoked.
C6_LocalMarkerBelowThreshold ==
    (Called(bot_response) /\ Called(match) /\ match.value.found) =>
        /\ match.value.score[1] * 10 < 8 * match.value.score[2] =>
              ReplyIs("(Local) " \o Get(QA_KB, match.value.key))
        /\ match.value.score[1] * 10 >= 8 * match.value.score[2] =>
              ReplyIs(Get(QA_KB, match.value.key))
        /\ "fetch_wikipedia_summary" \notin invoked
        /\ wiki_ans = NotCalled /\ calls = <<>>

\* C6: a local match scoring below 0.8 has been answered with the marker
C6_Witness ==
    /\ Called(bot_response) /\ Called(match) /\ match.value.found
    /\ match.value.score[1] * 10 < 8 * match.value.score[2]
    /\ ReplyIs("(Local) " \o Get(QA_KB, match.value.key))

\* C7, as stated: normalize_text(normalize_text(x)) = normalize_text(x); in a
\* state where the second call has been made, text is normalize_text(x) and
\* normalized is normalize_text(normalize_text(x)).
C7_Idempotent == ncalls = 2 => normalized.value.str = text

\* C8, as stated: for every key k of QA_KB, chatbot_reply of k, or of a line
\* that differs from k in letter case and punctuation only, returns exactly
\* QA_KB[k], unmarked, without invoking the external summary client.
C8_EveryKeyAnswered ==
    (Called(bot_response) /\ IsKeyOf(normalize_text(user_input), QA_KB)) =>
        /\ ReplyIs(Get(QA_KB, normalize_text(user_input)))
        /\ "fetch_wikipedia_summary" \notin invoked

Logged == {chat_log[i] : i \in 1..Len(chat_log)}

\* C9, as stated: driven by main, chatbot_reply never produces the farewell
\* reply.
C9_FarewellUnreachable == \A e \in Logged : e.bot # Farewell

\* C9, amended: driven by main, chatbot_reply is never handed "exit" or
\* "quit" (in any letter case), so its exit-phrase branch is taken for "bye"
\* and "goodbye" only; for these it does produce the farewell reply, and the
\* loop goes on.
C9_FarewellOnlyForBye ==
    /\ \A e \in Logged :
          /\ Lower(e.user) \notin {<<"e", "x", "i", "t">>, <<"q", "u", "i", "t">>}
          /\ e.bot = Farewell <=> Lower(e.user) \in {<<"b", "y", "e">>, <<"g", "o", "o", "d", "b", "y", "e">>}
    /\ printed = "ChatBot: " \o Farewell => running

\* C9: main has printed and logged the farewell reply and is still running
C9_Witness ==
    /\ running
    /\ printed = "ChatBot: " \o Farewell
    /\ \E e \in Logged : e.bot = Farewell

\* the ranked fuzzy pass of this call yields no candidate
NoCloseMatch ==
    get_close_matches(normalize_text(user_q), Keys(kb), 3, cutoff) = <<>>

\* key i passes the substring fallback
FallbackAccepts(i) ==
    /\ \/ Contains(normalize_text(user_q), kb[i].key)
       \/ Contains(kb[i].key, normalize_text(user_q))
    /\ RatioGE(Ratio(normalize_text(user_q), kb[i].key), cutoff)

\* C10: when the ranked fuzzy pass yields no candidate and
\* find_best_local_answer still returns a match, the returned key is the
\* first key, in the order of the knowledge base, that contains or is
\* contained in the normalized query with a similarity of at least cutoff.
C10_FallbackFirstContainingKey ==
    (Called(match) /\ NoCloseMatch /\ match.value.found) =>
        \E i \in 1..Len(kb) :
            /\ match.value.key = kb[i].key
            /\ match.value.answer = kb[i].answer
            /\ match.value.score = Ratio(normalize_text(user_q), kb[i].key)
            /\ FallbackAccepts(i)
            /\ \A j \in 1..(i - 1) : ~FallbackAccepts(j)

\* C10: the ranked pass found nothing and the fallback returned the second
\* key, having passed over a contained key below the cutoff
C10_Witness ==
    /\ Called(match) /\ NoCloseMatch /\ match.value.found
    /\ Len(kb) = 3
    /\ match.value.key = kb[2].key
    /\ Contains(normalize_text(user_q), kb[1].key)

====
